---- MODULE Spec2Model ----
(***************************************************************************)
(* Model of the Basher snapshot/diff engine: mode1 (Build, src/mode1.py)   *)
(* followed by mode2 (Load + Diff, src/mode2.py).                          *)
(*                                                                         *)
(* Paths are sequences of one-character strings, so that str.startswith,   *)
(* str.endswith, len, os.path.join and os.path.relpath are computed on the *)
(* characters as the code computes them.  A file is a record               *)
(* [size, content, err, regular]; err is the errno open() raises on it.    *)
(* The tar/untar round trip of the baseline directory is the archival      *)
(* collaborator's job and leaves the stored tree as Build wrote it.        *)
(***************************************************************************)
EXTENDS Integers, Sequences, FiniteSets, TLC

VARIABLES
    live,           \* the live tree: absolute path -> file
    store,          \* files under baseline_dir: relative path -> file
    bdirs,          \* directories made under baseline_dir (relative paths)
    nomkdir,        \* directories the baseline cannot hold (makedirs raises)
    pc,             \* position in the run: build, extracted, load, ...
    stack,          \* os.walk: frames of directories still to be yielded
    cur,            \* os.walk: directory being processed
    files,          \* os.walk: filenames of cur still to be processed
    built,          \* the source files mode1 wrote an artifact for
    lpending,       \* load_baseline: stored files still to be read
    rpending,       \* mode2: index paths the final loop has still to visit
    baseline_info,  \* mode2: the index returned by load_baseline
    seen_baseline_paths, \* mode2: relative paths seen in the live walk
    out,            \* mode2: the lines printed, in order
    events          \* changes the environment made between Build and Diff

vars == <<live, store, bdirs, nomkdir, pc, stack, cur, files, built,
          lpending, rpending, baseline_info, seen_baseline_paths, out, events>>

-----------------------------------------------------------------------------
(* Bounds of the model.                                                    *)

\* number of distinct byte contents a file of a given size can have
MaxData == 2

\* number of changes the environment makes between Build and Diff
MaxEvents == 1

-----------------------------------------------------------------------------
(* Program constants.                                                      *)

SIZE_THRESHOLD == 1048576

\* the path-length ceiling of load_baseline and mode2
MaxPathLen == 255

\* the length of ".hash", removed by fname[:-5]
HashSuffixLen == 5

\* errno.ENAMETOOLONG, the errno the OSError handlers test for
ENAMETOOLONG == 36

\* errno.EACCES, any other errno
EACCES == 13

NoErr == 0

None == <<>>
Some(x) == <<x>>

-----------------------------------------------------------------------------
(* Strings.                                                                *)

StartsWith(s, p) == Len(p) <= Len(s) /\ SubSeq(s, 1, Len(p)) = p

EndsWith(s, p) == Len(p) <= Len(s) /\ SubSeq(s, Len(s) - Len(p) + 1, Len(s)) = p

Sep == <<"/">>

DotHash == <<".", "h", "a", "s", "h">>

\* os.path.join(a, b)
Join(a, b) ==
    IF StartsWith(b, Sep) THEN b
    ELSE IF a = <<>> \/ EndsWith(a, Sep) THEN a \o b
    ELSE a \o Sep \o b

\* os.path.relpath(p, start) for p = start or p below start
RelPath(p, start) ==
    IF p = start THEN <<".">>
    ELSE IF EndsWith(start, Sep) THEN SubSeq(p, Len(start) + 1, Len(p))
    ELSE SubSeq(p, Len(start) + 2, Len(p))

\* rel_path = os.path.relpath(...); if rel_path == '.': rel_path = ''
RelDir(p, start) == IF RelPath(p, start) = <<".">> THEN <<>> ELSE RelPath(p, start)

LastSlash(p) == LET S == {i \in 1..Len(p) : p[i] = "/"}
                IN  IF S = {} THEN 0 ELSE CHOOSE i \in S : \A j \in S : j <= i

Dirname(p) == IF LastSlash(p) = 0 THEN <<>>
              ELSE IF LastSlash(p) = 1 THEN Sep
              ELSE SubSeq(p, 1, LastSlash(p) - 1)

Basename(p) == SubSeq(p, LastSlash(p) + 1, Len(p))

DigitChars == <<"0", "1", "2", "3", "4", "5", "6", "7", "8", "9">>

\* str(n) of a natural number
RECURSIVE Decimal(_)
Decimal(n) == IF n < 10 THEN <<DigitChars[n + 1]>>
              ELSE Decimal(n \div 10) \o <<DigitChars[(n % 10) + 1]>>

IsDecimal(s) == Len(s) > 0 /\ \A i \in 1..Len(s) : \E k \in 1..10 : DigitChars[k] = s[i]

DigitVal(c) == (CHOOSE k \in 1..10 : DigitChars[k] = c) - 1

\* int(s) of a string of decimal digits
RECURSIVE ParseInt(_)
ParseInt(s) == IF Len(s) = 1 THEN DigitVal(s[1])
               ELSE 10 * ParseInt(SubSeq(s, 1, Len(s) - 1)) + DigitVal(s[Len(s)])

-----------------------------------------------------------------------------
(* The tree the runs work on.                                              *)

root_dir == Sep

\* os.path.abspath('./baseline') with the working directory /
baseline_dir == <<"/", "b", "a", "s", "e", "l", "i", "n", "e">>

SKIP_DIRS == { <<"/", "p", "r", "o", "c">>,
               <<"/", "s", "y", "s">>,
               <<"/", "d", "e", "v">>,
               <<"/", "r", "u", "n">>,
               <<"/", "t", "m", "p">>,
               <<"/", "v", "a", "r", "/", "r", "u", "n">> }

skip_dirs == SKIP_DIRS \cup {baseline_dir}

LongLen == 130

TmpDir  == <<"/", "t", "m", "p">>
TmpxDir == <<"/", "t", "m", "p", "x">>
DDir    == <<"/", "d">>
LDir    == Join(DDir, [i \in 1..LongLen |-> "l"])
MDir    == Join(LDir, [i \in 1..LongLen |-> "m"])

LiveDirs == {root_dir, TmpDir, TmpxDir, DDir, LDir, MDir}

APath == Join(DDir, <<"a">>)
HPath == Join(DDir, <<"a">> \o DotHash)
GPath == Join(LDir, <<"g">>)
KPath == Join(LDir, <<"k">>)
NPath == Join(LDir, [i \in 1..LongLen |-> "n"])
FPath == Join(MDir, <<"f">>)
TPath == Join(TmpDir, <<"t">>)
SPath == Join(TmpxDir, <<"s">>)

SmallSize == 10

Sizes == {SmallSize, SIZE_THRESHOLD, SIZE_THRESHOLD + 1}

Raw(d) == [t |-> "raw", d |-> d, lines |-> <<>>]

File(size, d) == [size |-> size, content |-> Raw(d), err |-> NoErr, regular |-> TRUE]

\* a socket: os.path.isfile is False
Socket == [size |-> 0, content |-> Raw(0), err |-> NoErr, regular |-> FALSE]

FixedFiles == (GPath :> File(SmallSize, 1)) @@ (KPath :> Socket)
           @@ (NPath :> File(SmallSize, 1)) @@ (FPath :> File(SmallSize, 1))
           @@ (TPath :> File(SmallSize, 1)) @@ (SPath :> File(SmallSize, 1))

Restrict(f, S) == [x \in S |-> f[x]]

\* every file on disk: the live tree and the baseline directory inside it
Disk == [p \in DOMAIN live \cup {Join(baseline_dir, r) : r \in DOMAIN store} |->
            IF p \in DOMAIN live THEN live[p] ELSE store[RelPath(p, baseline_dir)]]

AllDirs == LiveDirs \cup {baseline_dir} \cup {Join(baseline_dir, r) : r \in bdirs \ {<<>>}}

\* the dirnames and filenames os.walk lists for a directory
DirNames(d) == {c \in AllDirs : c # d /\ Dirname(c) = d}
FileNames(d) == {Basename(p) : p \in {q \in DOMAIN Disk : Dirname(q) = d}}

\* os.path.isfile(p)
IsFile(p) == p \in DOMAIN Disk /\ Disk[p].regular

\* hashlib.sha256 of the bytes of f
Sha256(f) == <<"sha256", f.size, f.content>>

\* calculate_sha256 and shutil.copy2 open the file: the errno raised, if any
OpenErr(f) == f.err

-----------------------------------------------------------------------------
(* mode1: Build.                                                           *)

\* mode1.py:64-73, the two tests that prune a directory
BuildSkip(abs_dirpath) ==
    \/ StartsWith(abs_dirpath, baseline_dir)
    \/ abs_dirpath \in SKIP_DIRS
    \/ \E sd \in SKIP_DIRS : StartsWith(abs_dirpath, sd)

\* f"HASH: {file_hash}\nSIZE: {size}\n"
SidecarText(file_hash, size) ==
    [t |-> "sidecar", d |-> 0,
     lines |-> << <<"HASH: ", file_hash>>, <<"SIZE: ", Decimal(size)>> >>]

SidecarFile(f) ==
    [size |-> 78 + Len(Decimal(f.size)), content |-> SidecarText(Sha256(f), f.size),
     err |-> NoErr, regular |-> TRUE]

\* size > SIZE_THRESHOLD
IsLargeSize(size) == size > SIZE_THRESHOLD

\* mode1.py:89-101: the store after one file is processed
BuildWrite(st, f, dst) ==
    IF OpenErr(f) # NoErr THEN st
    ELSE IF IsLargeSize(f.size)
         THEN (dst \o DotHash :> SidecarFile(f)) @@ st
         ELSE (dst :> [f EXCEPT !.err = NoErr]) @@ st

\* The directories os.walk can yield next out of one listing.  The listing
\* order is the file system's; a pruned directory changes nothing, so the
\* pruned ones of a listing are taken first, in any order, then the others,
\* in any order.
NextDirs(frame, pruned) ==
    IF frame \cap pruned # {} THEN frame \cap pruned ELSE frame

PopDir(d) == IF stack[1] = {d} THEN Tail(stack) ELSE <<stack[1] \ {d}>> \o Tail(stack)

PushDirs(st, ds) == IF ds = {} THEN st ELSE <<ds>> \o st

BuildDir ==
    /\ pc = "build"
    /\ files = {}
    /\ stack # <<>>
    /\ \E d \in NextDirs(stack[1], {x \in stack[1] : BuildSkip(x)}) :
        IF BuildSkip(d)
        THEN /\ stack' = PopDir(d)
             /\ UNCHANGED <<cur, files, bdirs, pc>>
        ELSE IF RelDir(d, root_dir) \in nomkdir
        THEN \* os.makedirs(sub_baseline_dir) raises outside the try
             /\ pc' = "build_aborted"
             /\ UNCHANGED <<stack, cur, files, bdirs>>
        ELSE /\ stack' = PushDirs(PopDir(d), DirNames(d))
             /\ cur' = d
             /\ files' = FileNames(d)
             /\ bdirs' = bdirs \cup {RelDir(d, root_dir)}
             /\ pc' = pc
    /\ UNCHANGED <<live, store, nomkdir, built, lpending, rpending, baseline_info,
                   seen_baseline_paths, out, events>>

BuildFile ==
    /\ pc = "build"
    /\ \E fname \in files :
        LET src == Join(cur, fname)
            sub_baseline_dir == Join(baseline_dir, RelDir(cur, root_dir))
            dst == Join(sub_baseline_dir, fname)
        IN  /\ files' = files \ {fname}
            /\ IF ~IsFile(src)
               THEN UNCHANGED <<store, built>>
               ELSE /\ store' = BuildWrite(store, Disk[src], RelPath(dst, baseline_dir))
                    /\ built' = IF OpenErr(Disk[src]) = NoErr
                                THEN built \cup {src} ELSE built
    /\ UNCHANGED <<live, bdirs, nomkdir, pc, stack, cur, lpending, rpending,
                   baseline_info, seen_baseline_paths, out, events>>

\* the walk is over: tar the baseline directory
BuildFinish ==
    /\ pc = "build"
    /\ files = {}
    /\ stack = <<>>
    /\ pc' = "extracted"
    /\ cur' = root_dir
    /\ UNCHANGED <<live, store, bdirs, nomkdir, stack, files, built, lpending,
                   rpending, baseline_info, seen_baseline_paths, out, events>>

-----------------------------------------------------------------------------
(* The environment between Build and Diff: the live tree changes, and the  *)
(* extracted baseline can be damaged.                                      *)

Mutable == {APath, HPath}

EnvUnchanged == UNCHANGED <<bdirs, nomkdir, pc, stack, cur, files, built, lpending,
                            rpending, baseline_info, seen_baseline_paths, out>>

\* a file is rewritten with other bytes, or one byte is appended
EnvModify ==
    /\ pc = "extracted" /\ events < MaxEvents
    /\ \E p \in Mutable \cap DOMAIN live :
       \E g \in {File(live[p].size, d) : d \in (1..MaxData) \ {live[p].content.d}}
                \cup {File(live[p].size + 1, live[p].content.d)} :
            live' = [live EXCEPT ![p] = g]
    /\ events' = events + 1
    /\ UNCHANGED store /\ EnvUnchanged

EnvDelete ==
    /\ pc = "extracted" /\ events < MaxEvents
    /\ \E p \in Mutable \cap DOMAIN live :
            live' = Restrict(live, DOMAIN live \ {p})
    /\ events' = events + 1
    /\ UNCHANGED store /\ EnvUnchanged

EnvCreate ==
    /\ pc = "extracted" /\ events < MaxEvents
    /\ \E p \in Mutable \ DOMAIN live, s \in {SmallSize, SIZE_THRESHOLD + 1} :
            live' = (p :> File(s, 1)) @@ live
    /\ events' = events + 1
    /\ UNCHANGED store /\ EnvUnchanged

\* the file can no longer be opened
EnvChmod ==
    /\ pc = "extracted" /\ events < MaxEvents
    /\ \E p \in Mutable \cap DOMAIN live, e \in {EACCES, ENAMETOOLONG} :
            /\ live[p].err = NoErr
            /\ live' = [live EXCEPT ![p].err = e]
    /\ events' = events + 1
    /\ UNCHANGED store /\ EnvUnchanged

DropLines(lines, prefix) == SelectSeq(lines, LAMBDA l : l[1] # prefix)

Garble(lines, prefix) ==
    [i \in 1..Len(lines) |-> IF lines[i][1] = prefix
                             THEN <<prefix, <<"a", "b", "c">> >> ELSE lines[i]]

\* a sidecar loses its HASH or SIZE line, or its SIZE stops being a number
EnvCorrupt ==
    /\ pc = "extracted" /\ events < MaxEvents
    /\ \E r \in DOMAIN store :
        /\ store[r].content.t = "sidecar"
        /\ \E ls \in {DropLines(store[r].content.lines, "HASH: "),
                      DropLines(store[r].content.lines, "SIZE: "),
                      Garble(store[r].content.lines, "SIZE: ")} :
              store' = [store EXCEPT ![r].content.lines = ls]
    /\ events' = events + 1
    /\ UNCHANGED live /\ EnvUnchanged

\* a stored file vanishes after the index was loaded
EnvRemoveStored ==
    /\ pc = "loaded" /\ events < MaxEvents
    /\ \E r \in DOMAIN store : store' = Restrict(store, DOMAIN store \ {r})
    /\ events' = events + 1
    /\ UNCHANGED live /\ EnvUnchanged

-----------------------------------------------------------------------------
(* mode2: load_baseline.                                                   *)

Mode2Start ==
    /\ pc = "extracted"
    /\ pc' = "load"
    /\ lpending' = DOMAIN store
    /\ baseline_info' = <<>>
    /\ UNCHANGED <<live, store, bdirs, nomkdir, stack, cur, files, built, rpending,
                   seen_baseline_paths, out, events>>

LastOf(s) == s[Len(s)][2]

\* mode2.py:43-51: the parse of a sidecar; int() raises ValueError
ParseSidecar(lines) ==
    LET hs == SelectSeq(lines, LAMBDA l : l[1] = "HASH: ")
        ss == SelectSeq(lines, LAMBDA l : l[1] = "SIZE: ")
    IN  [raise |-> \E i \in 1..Len(ss) : ~IsDecimal(ss[i][2]),
         hash  |-> IF hs = <<>> THEN None ELSE Some(LastOf(hs)),
         size  |-> IF ss = <<>> \/ ~IsDecimal(LastOf(ss)) THEN None
                   ELSE Some(ParseInt(LastOf(ss)))]

\* fname.endswith(".hash")
IsSidecarName(fname) == EndsWith(fname, DotHash)

\* mode2.py:33-71: the key and the record of one stored file
LoadEntry(dirpath, fname, f) ==
    LET rel_dir == RelDir(dirpath, baseline_dir)
    IN  IF IsSidecarName(fname)
        THEN LET base_name == SubSeq(fname, 1, Len(fname) - HashSuffixLen)
                 parsed == ParseSidecar(f.content.lines)
             IN  [key |-> Join(rel_dir, base_name),
                  rec |-> [is_large |-> TRUE, hash |-> parsed.hash, size |-> parsed.size]]
        ELSE [key |-> Join(rel_dir, fname),
              rec |-> [is_large |-> FALSE, hash |-> None, size |-> Some(f.size)]]

LoadFile ==
    /\ pc = "load"
    /\ \E r \in lpending :
        LET full_path == Join(baseline_dir, r)
            dirpath == Dirname(full_path)
            fname == Basename(full_path)
            f == store[r]
            e == LoadEntry(dirpath, fname, f)
        IN  /\ lpending' = lpending \ {r}
            /\ IF Len(full_path) > MaxPathLen
               THEN UNCHANGED <<baseline_info, pc>>
               ELSE IF IsSidecarName(fname) /\ OpenErr(f) = ENAMETOOLONG
               THEN UNCHANGED <<baseline_info, pc>>
               ELSE IF IsSidecarName(fname)
                       /\ (OpenErr(f) # NoErr \/ ParseSidecar(f.content.lines).raise)
               THEN /\ pc' = "load_aborted"
                    /\ UNCHANGED baseline_info
               ELSE /\ baseline_info' = (e.key :> e.rec) @@ baseline_info
                    /\ pc' = pc
    /\ UNCHANGED <<live, store, bdirs, nomkdir, stack, cur, files, built, rpending,
                   seen_baseline_paths, out, events>>

LoadFinish ==
    /\ pc = "load"
    /\ lpending = {}
    /\ pc' = "loaded"
    /\ UNCHANGED <<live, store, bdirs, nomkdir, stack, cur, files, built, lpending,
                   rpending, baseline_info, seen_baseline_paths, out, events>>

-----------------------------------------------------------------------------
(* mode2: the live walk and the final loop.                                *)

DiffStart ==
    /\ pc = "loaded"
    /\ pc' = "diff"
    /\ stack' = <<{root_dir}>>
    /\ UNCHANGED <<live, store, bdirs, nomkdir, cur, files, built, lpending, rpending,
                   baseline_info, seen_baseline_paths, out, events>>

\* mode2.py:132-141, the two tests that prune a directory
DiffSkip(abs_dirpath) ==
    \/ \E sd \in skip_dirs : StartsWith(abs_dirpath, sd)
    \/ Len(abs_dirpath) > MaxPathLen

DiffDir ==
    /\ pc = "diff"
    /\ files = {}
    /\ stack # <<>>
    /\ \E d \in NextDirs(stack[1], {x \in stack[1] : DiffSkip(x)}) :
        IF DiffSkip(d)
        THEN /\ stack' = PopDir(d)
             /\ UNCHANGED <<cur, files>>
        ELSE /\ stack' = PushDirs(PopDir(d), DirNames(d))
             /\ cur' = d
             /\ files' = FileNames(d)
    /\ UNCHANGED <<live, store, bdirs, nomkdir, pc, built, lpending, rpending,
                   baseline_info, seen_baseline_paths, out, events>>

Line(kind, path) == [kind |-> kind, path |-> path]

\* compare_small_files: "same", "differ" or "raise"
compare_small_files(cf, bf) ==
    IF OpenErr(cf) # NoErr
    THEN IF OpenErr(cf) = ENAMETOOLONG THEN "differ" ELSE "raise"
    ELSE IF OpenErr(bf) # NoErr
    THEN IF OpenErr(bf) = ENAMETOOLONG THEN "differ" ELSE "raise"
    ELSE IF Sha256(cf) = Sha256(bf) THEN "same" ELSE "differ"

\* the kind taken from the live file's size instead of the record
IsLargeRecordBySize(info, cf) == cf.size > SIZE_THRESHOLD

\* info["is_large"]
IsLargeRecord(info, cf) == info.is_large

\* the path is not recorded as seen
SeenAddForgotten(seen, rel_file_path) == seen

\* seen_baseline_paths.add(rel_file_path)
SeenAdd(seen, rel_file_path) == seen \cup {rel_file_path}

\* mode2.py:162-192: what one live file prints, or "raise"
Compare(current_file, rel_file_path) ==
    LET cf == Disk[current_file]
    IN  IF rel_file_path \notin DOMAIN baseline_info
        THEN <<Line("NEW", current_file)>>
        ELSE LET info == baseline_info[rel_file_path]
                 baseline_copy == Join(baseline_dir, rel_file_path)
             IN  IF IsLargeRecord(info, cf)
                 THEN IF OpenErr(cf) = ENAMETOOLONG
                      THEN <<Line("Skipping too-long file", current_file)>>
                      ELSE IF OpenErr(cf) # NoErr THEN "raise"
                      ELSE IF Some(Sha256(cf)) = info.hash
                           THEN <<Line("UNCHANGED", current_file)>>
                           ELSE <<Line("MODIFIED", current_file)>>
                 ELSE IF ~IsFile(baseline_copy)
                      THEN <<Line("MODIFIED (missing baseline copy)", current_file)>>
                      ELSE LET same == compare_small_files(cf, Disk[baseline_copy])
                           IN  IF same = "raise" THEN "raise"
                               ELSE IF same = "same"
                                    THEN <<Line("UNCHANGED", current_file)>>
                                    ELSE <<Line("MODIFIED", current_file)>>

DiffFile ==
    /\ pc = "diff"
    /\ \E fname \in files :
        LET current_file == Join(cur, fname)
            rel_file_path == Join(RelDir(cur, root_dir), fname)
        IN  /\ files' = files \ {fname}
            /\ IF Len(current_file) > MaxPathLen \/ ~IsFile(current_file)
               THEN UNCHANGED <<seen_baseline_paths, out, pc>>
               ELSE /\ seen_baseline_paths' = SeenAdd(seen_baseline_paths, rel_file_path)
                    /\ IF Compare(current_file, rel_file_path) = "raise"
                       THEN pc' = "diff_aborted" /\ out' = out
                       ELSE pc' = pc /\ out' = out \o Compare(current_file, rel_file_path)
    /\ UNCHANGED <<live, store, bdirs, nomkdir, stack, cur, built, lpending, rpending,
                   baseline_info, events>>

\* the live walk is over: the loop over baseline_info starts
DiffWalkDone ==
    /\ pc = "diff"
    /\ files = {}
    /\ stack = <<>>
    /\ pc' = "removed"
    /\ rpending' = DOMAIN baseline_info
    /\ cur' = root_dir
    /\ UNCHANGED <<live, store, bdirs, nomkdir, stack, files, built, lpending,
                   baseline_info, seen_baseline_paths, out, events>>

DiffRemoved ==
    /\ pc = "removed"
    /\ \E rel_file_path \in rpending :
        /\ rpending' = rpending \ {rel_file_path}
        /\ out' = IF rel_file_path \notin seen_baseline_paths
                  THEN Append(out, Line("REMOVED", Join(baseline_dir, rel_file_path)))
                  ELSE out
    /\ UNCHANGED <<live, store, bdirs, nomkdir, pc, stack, cur, files, built, lpending,
                   baseline_info, seen_baseline_paths, events>>

DiffFinish ==
    /\ pc = "removed"
    /\ rpending = {}
    /\ pc' = "done"
    /\ UNCHANGED <<live, store, bdirs, nomkdir, stack, cur, files, built, lpending,
                   rpending, baseline_info, seen_baseline_paths, out, events>>

-----------------------------------------------------------------------------

Init ==
    /\ \E A \in {<<>>} \cup {<<File(s, d)>> : s \in Sizes, d \in 1..MaxData}
                       \cup {<<[File(s, 1) EXCEPT !.err = EACCES]>> : s \in Sizes},
          H \in {<<>>, <<File(SmallSize, 1)>>, <<File(SIZE_THRESHOLD + 1, 1)>>} :
            live = (IF A = <<>> THEN <<>> ELSE (APath :> A[1]))
                   @@ (IF H = <<>> THEN <<>> ELSE (HPath :> H[1]))
                   @@ FixedFiles
    /\ store = <<>>
    /\ bdirs = {}
    /\ nomkdir \in {{}, {RelDir(MDir, root_dir)}}
    /\ pc = "build"
    /\ stack = <<{root_dir}>>
    /\ cur = root_dir
    /\ files = {}
    /\ built = {}
    /\ lpending = {}
    /\ rpending = {}
    /\ baseline_info = <<>>
    /\ seen_baseline_paths = {}
    /\ out = <<>>
    /\ events = 0

Next ==
    \/ BuildDir \/ BuildFile \/ BuildFinish
    \/ EnvModify \/ EnvDelete \/ EnvCreate \/ EnvChmod \/ EnvCorrupt \/ EnvRemoveStored
    \/ Mode2Start \/ LoadFile \/ LoadFinish
    \/ DiffStart \/ DiffDir \/ DiffFile \/ DiffWalkDone \/ DiffRemoved \/ DiffFinish

Spec == Init /\ [][Next]_vars

TypeOK == pc \in {"build", "extracted", "load", "loaded", "diff", "removed", "done",
                 "build_aborted", "load_aborted", "diff_aborted"}
-----------------------------------------------------------------------------
(* Vocabulary of the properties.                                           *)

Aborted == {"build_aborted", "load_aborted", "diff_aborted"}

RecordKinds == {"NEW", "MODIFIED", "REMOVED", "UNCHANGED"}

\* the lines the live walk prints about a file it compared
WalkKinds == {"NEW", "MODIFIED", "UNCHANGED", "MODIFIED (missing baseline copy)"}

ClassOf(kind) == IF kind = "MODIFIED (missing baseline copy)" THEN "MODIFIED" ELSE kind

WalkLines(p) == {i \in 1..Len(out) : out[i].kind \in WalkKinds /\ out[i].path = p}

RemovedLines(rel) ==
    {i \in 1..Len(out) : out[i].kind = "REMOVED" /\ out[i].path = Join(baseline_dir, rel)}

LinesNaming(rel) ==
    {i \in 1..Len(out) : out[i].path \in {Join(root_dir, rel), Join(baseline_dir, rel)}}

\* the relative paths the live walk printed a line about
ObservedRel == {RelPath(out[i].path, root_dir) :
                    i \in {k \in 1..Len(out) : out[k].kind # "REMOVED"}}

\* p is root or lies below it, component by component
IsUnder(p, root) == p = root \/ StartsWith(p, root \o Sep)

\* the directories the Path Filter of the specification excludes
Excluded(d) == \/ \E sd \in SKIP_DIRS \cup {baseline_dir} : IsUnder(d, sd)
               \/ Len(d) > MaxPathLen

NoIOError == nomkdir = {} /\ \A p \in DOMAIN live : live[p].err = NoErr

\* the class the record of rel gives the live file at p
ExpectedClass(p) ==
    LET rel == RelPath(p, root_dir)
        f == live[p]
    IN  IF rel \notin DOMAIN baseline_info THEN "NEW"
        ELSE IF baseline_info[rel].is_large
        THEN IF f.err = NoErr /\ baseline_info[rel].hash = Some(Sha256(f))
             THEN "UNCHANGED" ELSE "MODIFIED"
        ELSE IF rel \notin DOMAIN store THEN "MODIFIED"
        ELSE IF f.err = NoErr /\ Sha256(f) = Sha256(store[rel])
             THEN "UNCHANGED" ELSE "MODIFIED"

-----------------------------------------------------------------------------
(* C1: every live file the Diff walk compares is classified by its index   *)
(* record alone: New when its relative path is no key of the index; with a *)
(* Large record, Unchanged exactly when its digest is the stored digest,   *)
(* else Modified; with a Small record, Modified when the stored copy is    *)
(* missing, else Unchanged exactly when the two digests are equal.  The    *)
(* live file's size plays no part.  Every file the walk reached and could  *)
(* read has exactly one such line.                                         *)
C1_ClassifiedByRecord ==
    /\ \A i \in 1..Len(out) :
          out[i].kind \in WalkKinds => ClassOf(out[i].kind) = ExpectedClass(out[i].path)
    /\ \A rel \in seen_baseline_paths :
          live[Join(root_dir, rel)].err = NoErr
             => Cardinality(WalkLines(Join(root_dir, rel))) = 1

\* a file that grew past the threshold is compared as the Small record it has
C1_Witness ==
    /\ pc = "done"
    /\ \E i \in 1..Len(out) :
          LET rel == RelPath(out[i].path, root_dir)
          IN  /\ out[i].kind = "MODIFIED"
              /\ rel \in DOMAIN baseline_info
              /\ ~baseline_info[rel].is_large
              /\ live[out[i].path].size > SIZE_THRESHOLD
    /\ \E i \in 1..Len(out) : out[i].kind = "NEW"
    /\ \E i \in 1..Len(out) : out[i].kind = "UNCHANGED"

(* C2: when Diff completes, REMOVED was printed for exactly the index      *)
(* paths the live walk did not observe, once each; no path has both a      *)
(* REMOVED line and a NEW/MODIFIED/UNCHANGED line; and no line of the live *)
(* walk follows a REMOVED line.                                            *)
C2_RemovedExactlyUnseen ==
    /\ pc = "done" =>
          /\ \A rel \in DOMAIN baseline_info \ ObservedRel :
                Cardinality(RemovedLines(rel)) = 1
          /\ \A i \in 1..Len(out) :
                out[i].kind = "REMOVED" =>
                    RelPath(out[i].path, baseline_dir) \in DOMAIN baseline_info \ ObservedRel
    /\ \A i \in 1..Len(out) :
          out[i].kind = "REMOVED" =>
              WalkLines(Join(root_dir, RelPath(out[i].path, baseline_dir))) = {}
    /\ \A i, j \in 1..Len(out) :
          i < j /\ out[i].kind = "REMOVED" => out[j].kind = "REMOVED"

\* a completed Diff with a removed path, a compared path and a seen index path
C2_Witness ==
    /\ pc = "done"
    /\ \E i \in 1..Len(out) : out[i].kind = "REMOVED"
    /\ \E i \in 1..Len(out) : out[i].kind \in WalkKinds
    /\ DOMAIN baseline_info \cap seen_baseline_paths # {}

(* C3: after Build, Load and Diff against the unmodified source, every     *)
(* readable source file of size at or above the threshold has an UNCHANGED *)
(* line and no NEW, MODIFIED or REMOVED line.                              *)
C3_LargeUnchanged ==
    (pc = "done" /\ events = 0 /\ NoIOError) =>
        \A p \in DOMAIN live :
            (live[p].regular /\ live[p].size >= SIZE_THRESHOLD /\ ~Excluded(Dirname(p)))
               => /\ \E i \in WalkLines(p) : out[i].kind = "UNCHANGED"
                  /\ \A i \in LinesNaming(RelPath(p, root_dir)) : out[i].kind = "UNCHANGED"

(* C4: after Build and Load without I/O errors, the index has exactly one  *)
(* record per source file Build stored, keyed by its relative path, and no *)
(* other key; a record is Large exactly when the file's size exceeded the  *)
(* threshold, and a file under the threshold has a Small record with its   *)
(* size.  Stated for the files whose stored path is within the path-length *)
(* ceiling, which is weaker than the claim.                                *)
C4_IndexMatchesSource ==
    (pc = "loaded" /\ events = 0 /\ NoIOError) =>
        /\ \A p \in built :
              Len(Join(baseline_dir, RelPath(p, root_dir))) <= MaxPathLen =>
                 /\ RelPath(p, root_dir) \in DOMAIN baseline_info
                 /\ baseline_info[RelPath(p, root_dir)].is_large
                       <=> (live[p].size > SIZE_THRESHOLD)
                 /\ live[p].size < SIZE_THRESHOLD =>
                       baseline_info[RelPath(p, root_dir)].size = Some(live[p].size)
        /\ \A k \in DOMAIN baseline_info : Join(root_dir, k) \in built

MalformedSidecars ==
    {r \in DOMAIN store :
        /\ store[r].content.t = "sidecar"
        /\ \/ ParseSidecar(store[r].content.lines).raise
           \/ ParseSidecar(store[r].content.lines).hash = None
           \/ ParseSidecar(store[r].content.lines).size = None}

(* C5: Load never aborts on a malformed sidecar; the index holds a Large   *)
(* record for its path, and Diff prints MODIFIED for the live file of that *)
(* path.                                                                   *)
C5_MalformedSidecarTolerated ==
    /\ pc # "load_aborted"
    /\ pc = "done" =>
          \A r \in MalformedSidecars :
             LET rel == SubSeq(r, 1, Len(r) - HashSuffixLen)
             IN  /\ rel \in DOMAIN baseline_info
                 /\ baseline_info[rel].is_large
                 /\ rel \in seen_baseline_paths =>
                       \E i \in WalkLines(Join(root_dir, rel)) : out[i].kind = "MODIFIED"

(* C6: a live path longer than the path-length ceiling has no artifact in  *)
(* the snapshot and no line of Diff names it.                              *)
C6_LongPathsExcluded ==
    \A p \in DOMAIN live :
        Len(p) > MaxPathLen =>
            /\ RelPath(p, root_dir) \notin DOMAIN store
            /\ RelPath(p, root_dir) \o DotHash \notin DOMAIN store
            /\ LinesNaming(RelPath(p, root_dir)) = {}

(* C7: no failure on one path aborts Build, Load or Diff.                  *)
C7_NoAbort == pc \notin Aborted

(* C8: Build stores a file exactly when its directory is neither an        *)
(* excluded root or the storage root, nor below one, nor longer than the   *)
(* ceiling; Diff compares a file under the same condition.                 *)
C8_SkipExactlyDescendants ==
    /\ (pc = "extracted" /\ events = 0 /\ NoIOError) =>
          \A p \in DOMAIN live :
             live[p].regular => (p \in built <=> ~Excluded(Dirname(p)))
    /\ (pc = "done" /\ NoIOError) =>
          \A p \in DOMAIN live :
             (live[p].regular /\ Len(p) <= MaxPathLen) =>
                (RelPath(p, root_dir) \in seen_baseline_paths <=> ~Excluded(Dirname(p)))

(* C9: after Build, every source file Build processed without error has    *)
(* exactly one artifact: above the threshold a sidecar at p.hash with its  *)
(* digest and size and no copy at p, otherwise a verbatim copy at p and no *)
(* sidecar of it.                                                          *)
C9_OneArtifactPerFile ==
    (pc = "extracted" /\ events = 0) =>
        \A p \in built :
            LET rel == RelPath(p, root_dir)
                f == live[p]
                HasSidecar == /\ rel \o DotHash \in DOMAIN store
                              /\ store[rel \o DotHash].content = SidecarText(Sha256(f), f.size)
                HasCopy == /\ rel \in DOMAIN store
                           /\ store[rel].content = f.content
                           /\ store[rel].size = f.size
            IN  IF f.size > SIZE_THRESHOLD THEN HasSidecar /\ ~HasCopy
                                           ELSE HasCopy /\ ~HasSidecar

(* C10: every record Diff prints has a kind among NEW, MODIFIED, REMOVED   *)
(* and UNCHANGED, and every live file the walk reached has exactly one     *)
(* such line.                                                              *)
C10_OneRecordLinePerFile ==
    /\ \A i \in 1..Len(out) :
          out[i].kind # "Skipping too-long file" => out[i].kind \in RecordKinds
    /\ pc \in {"removed", "done"} =>
          \A rel \in seen_baseline_paths :
             Cardinality({i \in 1..Len(out) :
                             /\ out[i].path = Join(root_dir, rel)
                             /\ out[i].kind \in RecordKinds}) = 1
====
